---- MODULE Spec2Model ----
(***************************************************************************)
(* Formatting (src/src/formatting.ts): a set of marks over a position      *)
(* order, the per-anchor index formatList, and the queries getFormat and   *)
(* formattedSpans.  Marks are TimestampMarks ordered by                    *)
(* compareTimestampMarks (src/src/timestamp_formatting.ts).  The subclass  *)
(* TimestampFormatting, which adds newMark and a Lamport timestamp, is     *)
(* modelled at the end of the module.                                      *)
(*                                                                         *)
(* JavaScript objects are modelled by their contents: two marks are the    *)
(* same object iff they are the same record.  An array shared by two Maps  *)
(* (the shallow copy in createData) is modelled by the set `shared` of     *)
(* keys whose array is one object on both sides of an entry; every write   *)
(* to such an array is made on both sides.  A thrown exception is          *)
(* modelled by the flag `threw` of a result, together with the state the   *)
(* instance was left in when the exception escaped.                        *)
(***************************************************************************)
EXTENDS Integers, Sequences, FiniteSets, TLC

\* orderedMarks, formatList: the fields of the Formatting instance.
\* lastOp, lastMark, lastThrew, lastChanges: the last call made, its argument
\* (NoMark for load and clear), whether it threw, and the FormatChanges it
\* returned.  inserted: the number of marks spliced into
\* orderedMarks since construction or the last clear().
\* timestamp: the field of a TimestampFormatting instance (0 in a plain
\* Formatting).  returned, observed: the history of the instance, the
\* timestamps of the marks newMark has returned and the (creatorID, timestamp)
\* pairs of the marks passed to addMark or to a load that returned.
\* thisList, created: the positions present in this.list of a RichList, and the
\* positions its Order has created so far (those deleted from the list
\* included).  expandRules: the constructor option of the RichList.
\* facadeCall: the last call made on the RichList, with what it returned and
\* what each onCreateMark callback saw.  helperCall: the last call of a
\* function that changes no object (a helper function, locateMark), with its
\* arguments and result.
VARIABLES orderedMarks, formatList, lastOp, lastMark, lastThrew, lastChanges,
          inserted, timestamp, returned, observed,
          thisList, created, expandRules, facadeCall, helperCall

facadeVars == <<thisList, created, expandRules, facadeCall, helperCall>>

vars ==
  <<orderedMarks, formatList, lastOp, lastMark, lastThrew, lastChanges,
    inserted, timestamp, returned, observed,
    thisList, created, expandRules, facadeCall, helperCall>>

\* ------------------------------------------------------------------ bounds

\* Number of positions strictly between MIN_POSITION and MAX_POSITION.
NPos == 3
\* Largest Lamport timestamp of a mark handed to the instance.
MaxTs == 2
\* addMark is not called once this many marks have been inserted since clear().
MaxMarks == 3
\* newMark is not called once the Lamport timestamp has reached this value.
MaxCounter == 3

\* ------------------------------------------------------- positions, anchors

MIN_POSITION == 0
MAX_POSITION == NPos + 1
RealPositions == (MIN_POSITION + 1)..(MAX_POSITION - 1)

\* Order.compare on positions.
OrderCompare(a, b) == a - b

MkAnchor(p, b) == [pos |-> p, before |-> b]
MIN_ANCHOR == MkAnchor(MIN_POSITION, FALSE)
MAX_ANCHOR == MkAnchor(MAX_POSITION, TRUE)

equalsAnchor(a, b) == a.before = b.before /\ a.pos = b.pos

\* Anchors.compare
AnchorsCompare(a, b) ==
  LET posCompare == OrderCompare(a.pos, b.pos)
  IN IF posCompare = 0
       THEN IF a.before = b.before THEN 0 ELSE IF a.before THEN -1 ELSE 1
       ELSE posCompare

\* ---------------------------------------------------------------- values

NULL == "null"
Keys == {"bold", "url"}
\* The (key, value) pairs of the marks handed in.
KeyValues == {<<"bold", "v1">>, <<"bold", NULL>>, <<"url", "v1">>}

\* Lexicographic order of the creatorIDs in use ("alice" < "bob").
CreatorRank(c) == IF c = "alice" THEN 1 ELSE 2

MkMark(s, e, k, v, c, t) ==
  [start |-> s, end |-> e, key |-> k, value |-> v, creatorID |-> c, timestamp |-> t]

NoMark == MkMark(MIN_ANCHOR, MIN_ANCHOR, "", "", "", 0)

\* No call of a helper function, and no call on a RichList, has been made.
NoHelperCall ==
  [op |-> "none", startIndex |-> 0, endIndex |-> 0, expand |-> "after",
   threw |-> FALSE, start |-> MIN_ANCHOR, end |-> MIN_ANCHOR,
   slice |-> [threw |-> FALSE, startIndex |-> 0, endIndex |-> 0]]
NoFacadeCall ==
  [op |-> "none", index |-> 0, endIndex |-> 0, format |-> <<>>,
   expand |-> "undefined", threw |-> FALSE,
   createdMarks |-> <<>>, changes |-> <<>>, callbacks |-> <<>>]

\* A JavaScript value held in a FormatChange: a primitive, or (a reference to)
\* a mark object.
Prim(v) == [isObj |-> FALSE, v |-> v, obj |-> NoMark]
Obj(m) == [isObj |-> TRUE, v |-> "", obj |-> m]

compareTimestampMarks(a, b) ==
  IF a.timestamp # b.timestamp THEN a.timestamp - b.timestamp
  ELSE IF a.creatorID = b.creatorID THEN 0
  ELSE IF CreatorRank(a.creatorID) > CreatorRank(b.creatorID) THEN 1 ELSE -1

compareMarks(a, b) == compareTimestampMarks(a, b)

\* ---------------------------------------------------------------- locateMark

\* Result of locateMark when compareMarks is handed list[1] of a list of
\* length 1 (undefined) and throws a TypeError.
TypeError == -1

Max(a, b) == IF a > b THEN a ELSE b

RECURSIVE ReverseScan(_, _, _, _)
\* for (let i = list.length - 1; i >= minus10; i--)
\*   if (this.compareMarks(mark, list[1]) > 0) return i + 1;
\* return minus10;
ReverseScan(list, mark, i, minus10) ==
  IF i >= minus10
    THEN IF Len(list) < 2 THEN TypeError
         ELSE IF compareMarks(mark, list[2]) > 0 THEN i + 1
         ELSE ReverseScan(list, mark, i - 1, minus10)
    ELSE minus10

RECURSIVE BinarySearch(_, _, _, _)
BinarySearch(list, mark, L, R) ==
  IF L < R
    THEN LET m == (L + R) \div 2
         IN IF compareMarks(mark, list[m + 1]) > 0
              THEN BinarySearch(list, mark, m + 1, R)
              ELSE BinarySearch(list, mark, L, m)
    ELSE R

\* 0-based index, as in the source; list is 1-based here.
locateMark(list, mark) ==
  IF Len(list) = 0 THEN 0
  ELSE IF compareMarks(mark, list[Len(list)]) > 0 THEN Len(list)
  ELSE LET minus10 == Max(0, Len(list) - 10)
       IN IF compareMarks(mark, list[minus10 + 1]) >= 0
            THEN ReverseScan(list, mark, Len(list) - 1, minus10)
            ELSE BinarySearch(list, mark, 0, minus10)

\* Array.prototype.splice(index, 0, x) and splice(index, 1), index 0-based.
SpliceIn(list, index, x) ==
  SubSeq(list, 1, index) \o <<x>> \o SubSeq(list, index + 1, Len(list))
SpliceOut(list, index) ==
  SubSeq(list, 1, index) \o SubSeq(list, index + 2, Len(list))

\* ---------------------------------------------------------------- formatList

\* A Map<string, M[]> is a function from the keys it holds to their arrays.
EmptyMap == [k \in {} |-> <<>>]
MapSet(M, k, v) == [x \in DOMAIN M \cup {k} |-> IF x = k THEN v ELSE M[x]]

\* FormatData {before?, after?}.  `shared` holds the keys whose array is one
\* object in both Maps (entries copied by `new Map(data.before)`).
NoData ==
  [hasBefore |-> FALSE, before |-> EmptyMap,
   hasAfter |-> FALSE, after |-> EmptyMap, shared |-> {}]

\* The List<FormatData> after the constructor or clear():
\* formatList.set(Order.MIN_POSITION, { after: new Map() }).
InitFormatList == [p \in {MIN_POSITION} |-> [NoData EXCEPT !.hasAfter = TRUE]]

ListSet(fl, pos, d) == [p \in DOMAIN fl \cup {pos} |-> IF p = pos THEN d ELSE fl[p]]

\* List.indexOfPosition(pos) for a present pos, and with searchDir "left":
\* the index of pos if present, else the index just left of its gap.
indexOfPosition(fl, pos) == Cardinality({q \in DOMAIN fl : q < pos})
indexOfPositionLeft(fl, pos) ==
  IF pos \in DOMAIN fl THEN indexOfPosition(fl, pos)
  ELSE indexOfPosition(fl, pos) - 1
positionAt(fl, i) == CHOOSE p \in DOMAIN fl : indexOfPosition(fl, p) = i

SideMap(data, before) == IF before THEN data.before ELSE data.after

\* Writes `stack` as the array of `key` at the anchor (pos, before).  An array
\* shared by both sides changes on both.
SetStack(fl, pos, before, key, stack) ==
  LET d == fl[pos]
      sh == key \in d.shared
      nb == IF before \/ sh THEN MapSet(d.before, key, stack) ELSE d.before
      na == IF ~before \/ sh THEN MapSet(d.after, key, stack) ELSE d.after
  IN [fl EXCEPT ![pos] = [d EXCEPT !.before = nb, !.after = na]]

\* dataToRecord: the top mark's value per key, nulls left out.  Reading
\* `.value` of the top of an empty array throws a TypeError.
dataToRecord(anchorData) ==
  IF \E k \in DOMAIN anchorData : Len(anchorData[k]) = 0
    THEN [threw |-> TRUE, rec |-> EmptyMap]
    ELSE [threw |-> FALSE,
          rec |-> [k \in {x \in DOMAIN anchorData :
                            anchorData[x][Len(anchorData[x])].value # NULL}
                     |-> anchorData[k][Len(anchorData[k])].value]]

\* copyPrevAnchor: a deep copy of the Map of the entry before pos.
\* getAt(posIndex - 1) throws when pos is the first entry.
copyPrevAnchor(fl, pos) ==
  LET posIndex == indexOfPosition(fl, pos)
  IN IF posIndex = 0 THEN [threw |-> TRUE, map |-> EmptyMap]
     ELSE LET prevData == fl[positionAt(fl, posIndex - 1)]
          IN [threw |-> FALSE,
              map |-> IF prevData.hasAfter THEN prevData.after ELSE prevData.before]

\* createData.  (`anchor.pos === null` never holds: positions are objects.)
createData(fl, anchor) ==
  LET fl1 == IF anchor.pos \in DOMAIN fl THEN fl ELSE ListSet(fl, anchor.pos, NoData)
      data == fl1[anchor.pos]
      c == copyPrevAnchor(fl1, anchor.pos)
  IN IF anchor.before
       THEN IF data.hasBefore THEN [threw |-> FALSE, fl |-> fl1]
            ELSE IF c.threw THEN [threw |-> TRUE, fl |-> fl1]
            ELSE [threw |-> FALSE,
                  fl |-> [fl1 EXCEPT ![anchor.pos] =
                            [data EXCEPT !.hasBefore = TRUE, !.before = c.map]]]
       ELSE IF data.hasAfter THEN [threw |-> FALSE, fl |-> fl1]
            ELSE IF data.hasBefore
              \* data.after = new Map(data.before): the arrays are not copied.
              THEN [threw |-> FALSE,
                    fl |-> [fl1 EXCEPT ![anchor.pos] =
                              [data EXCEPT !.hasAfter = TRUE, !.after = data.before,
                                           !.shared = DOMAIN data.before]]]
            ELSE IF c.threw THEN [threw |-> TRUE, fl |-> fl1]
            ELSE [threw |-> FALSE,
                  fl |-> [fl1 EXCEPT ![anchor.pos] =
                            [data EXCEPT !.hasAfter = TRUE, !.after = c.map]]]

\* ---------------------------------------------------------------- SpanBuilder

recordEquals(a, b) ==
  /\ \A k \in DOMAIN a : k \in DOMAIN b /\ b[k] = a[k]
  /\ \A k \in DOMAIN b : k \in DOMAIN a /\ a[k] = b[k]

\* FormatChangeInternal: null, or {otherValue, format}.
NullChange == [isNull |-> TRUE, otherValue |-> Prim(NULL), format |-> EmptyMap]

formatChangeEquals(a, b) ==
  IF a.isNull \/ b.isNull THEN a.isNull = b.isNull
  ELSE a.otherValue = b.otherValue /\ recordEquals(a.format, b.format)

\* this.equals(a, b) of a SpanBuilder constructed with the function named
\* `equals`.
SpanBuilderEquals(equals, a, b) ==
  IF equals = "recordEquals" THEN recordEquals(a, b) ELSE formatChangeEquals(a, b)

\* SpanBuilder.record
record(slices, start, end, data, equals) ==
  IF equalsAnchor(start, end) THEN slices
  ELSE IF Len(slices) # 0 /\ SpanBuilderEquals(equals, slices[Len(slices)].data, data)
    THEN [slices EXCEPT ![Len(slices)].end = end]
  ELSE Append(slices, [start |-> start, end |-> end, data |-> data])

\* The spans returned by finish(nextAnchor) after add(events[1].anchor,
\* events[1].data), add(events[2].anchor, events[2].data), ...
SpanBuilder(events, nextAnchor, equals) ==
  LET n == Len(events)
      endOf(i) == IF i < n THEN events[i + 1].anchor ELSE nextAnchor
      slices[i \in 0..n] ==
        IF i = 0 THEN <<>>
        ELSE record(slices[i - 1], events[i].anchor, endOf(i), events[i].data, equals)
  IN slices[n]

\* ---------------------------------------------------------------- addMark

RECURSIVE SortedSeq(_)
\* The elements of a finite set of integers, ascending.
SortedSeq(S) ==
  IF S = {} THEN <<>>
  ELSE LET m == CHOOSE x \in S : \A y \in S : x <= y
       IN <<m>> \o SortedSeq(S \ {m})

\* The anchors the loop `for (let i = startIndex; i <= endIndex; i++)` of
\* addMark and deleteMark updates, in order: the sides that have data and lie
\* in [mark.start, mark.end).
AnchorsOfEntry(fl, mark, pos) ==
  LET data == fl[pos]
      isStart == pos = mark.start.pos
      isEnd == pos = mark.end.pos
      b == /\ data.hasBefore
           /\ \/ (~isStart /\ ~isEnd)
              \/ (isStart /\ mark.start.before)
              \/ (isEnd /\ ~mark.end.before)
      a == data.hasAfter /\ ~isEnd
  IN (IF b THEN <<MkAnchor(pos, TRUE)>> ELSE <<>>)
       \o (IF a THEN <<MkAnchor(pos, FALSE)>> ELSE <<>>)

RECURSIVE Flatten(_, _, _)
Flatten(fl, mark, ps) ==
  IF ps = <<>> THEN <<>>
  ELSE AnchorsOfEntry(fl, mark, Head(ps)) \o Flatten(fl, mark, Tail(ps))

LoopAnchors(fl, mark) ==
  Flatten(fl, mark,
          SortedSeq({p \in DOMAIN fl : mark.start.pos <= p /\ p <= mark.end.pos}))

\* addToAnchor: the state left behind, the (anchor, data) pair given to the
\* SpanBuilder, and whether a TypeError escaped.
addToAnchor(fl, anchor, mark) ==
  LET anchorData == SideMap(fl[anchor.pos], anchor.before)
      marks0 == IF mark.key \in DOMAIN anchorData THEN anchorData[mark.key] ELSE <<>>
      index == locateMark(marks0, mark)
      marks == SpliceIn(marks0, index, mark)
      fl1 == SetStack(fl, anchor.pos, anchor.before, mark.key, marks)
      rec == dataToRecord(SideMap(fl1[anchor.pos], anchor.before))
  IN IF index = TypeError
       THEN [threw |-> TRUE, fl |-> fl, event |-> [anchor |-> anchor, data |-> NullChange]]
     ELSE IF index = Len(marks) - 1
       THEN IF rec.threw
              THEN [threw |-> TRUE, fl |-> fl1,
                    event |-> [anchor |-> anchor, data |-> NullChange]]
              ELSE [threw |-> FALSE, fl |-> fl1,
                    event |-> [anchor |-> anchor,
                               data |-> [isNull |-> FALSE,
                                         \* marks[marks.length - 2]: the mark, not its value
                                         otherValue |-> IF Len(marks) = 1 THEN Prim(NULL)
                                                        ELSE Obj(marks[Len(marks) - 1]),
                                         format |-> rec.rec]]]
     ELSE [threw |-> FALSE, fl |-> fl1, event |-> [anchor |-> anchor, data |-> NullChange]]

RECURSIVE AddLoop(_, _, _, _)
AddLoop(fl, anchors, mark, events) ==
  IF anchors = <<>> THEN [threw |-> FALSE, fl |-> fl, events |-> events]
  ELSE LET r == addToAnchor(fl, Head(anchors), mark)
       IN IF r.threw THEN [threw |-> TRUE, fl |-> r.fl, events |-> events]
          ELSE AddLoop(r.fl, Tail(anchors), mark, Append(events, r.event))

\* The FormatChanges built from the SpanBuilder's slices after an addMark.
AddChanges(slices, mark) ==
  LET keep == {i \in 1..Len(slices) :
                 ~slices[i].data.isNull /\ slices[i].data.otherValue # Prim(mark.value)}
      ch(i) == [start |-> slices[i].start, end |-> slices[i].end, key |-> mark.key,
                value |-> Prim(mark.value),
                previousValue |-> slices[i].data.otherValue,
                format |-> slices[i].data.format]
      idx == SortedSeq(keep)
  IN [j \in 1..Len(idx) |-> ch(idx[j])]

Result(threw, om, fl, changes) ==
  [threw |-> threw, orderedMarks |-> om, formatList |-> fl, changes |-> changes]

\* addMark without the check of mark.start against mark.end: every mark that
\* is not already stored is spliced into orderedMarks and merged.
addMarkNoRangeCheck(om, fl, mark) ==
  LET index == locateMark(om, mark)
      om1 == SpliceIn(om, index, mark)
      c1 == createData(fl, mark.start)
      c2 == createData(c1.fl, mark.end)
      loop == AddLoop(c2.fl, LoopAnchors(c2.fl, mark), mark, <<>>)
      slices == SpanBuilder(loop.events, mark.end, "formatChangeEquals")
  IN IF index = TypeError THEN Result(TRUE, om, fl, <<>>)
     ELSE IF index < Len(om) /\ compareMarks(mark, om[index + 1]) = 0
       THEN Result(FALSE, om, fl, <<>>)
     ELSE IF c1.threw THEN Result(TRUE, om1, c1.fl, <<>>)
     ELSE IF c2.threw THEN Result(TRUE, om1, c2.fl, <<>>)
     ELSE IF loop.threw THEN Result(TRUE, om1, loop.fl, <<>>)
     ELSE Result(FALSE, om1, loop.fl, AddChanges(slices, mark))

\* Formatting.addMark on the state (om, fl).
addMark(om, fl, mark) ==
  LET index == locateMark(om, mark)
      compared == OrderCompare(mark.start.pos, mark.end.pos)
      om1 == SpliceIn(om, index, mark)
      c1 == createData(fl, mark.start)
      c2 == createData(c1.fl, mark.end)
      loop == AddLoop(c2.fl, LoopAnchors(c2.fl, mark), mark, <<>>)
      slices == SpanBuilder(loop.events, mark.end, "formatChangeEquals")
  IN IF index = TypeError THEN Result(TRUE, om, fl, <<>>)
     ELSE IF index < Len(om) /\ compareMarks(mark, om[index + 1]) = 0
       THEN Result(FALSE, om, fl, <<>>)
     ELSE IF compared > 0 \/ (compared = 0 /\ ~(mark.start.before /\ ~mark.end.before))
       THEN Result(TRUE, om, fl, <<>>)
     ELSE IF c1.threw THEN Result(TRUE, om1, c1.fl, <<>>)
     ELSE IF c2.threw THEN Result(TRUE, om1, c2.fl, <<>>)
     ELSE IF loop.threw THEN Result(TRUE, om1, loop.fl, <<>>)
     ELSE Result(FALSE, om1, loop.fl, AddChanges(slices, mark))

\* ---------------------------------------------------------------- deleteMark

\* Array.prototype.lastIndexOf, 0-based, -1 when absent.
lastIndexOf(list, x) ==
  IF \E i \in 1..Len(list) : list[i] = x
    THEN (CHOOSE i \in 1..Len(list) :
            list[i] = x /\ \A j \in (i + 1)..Len(list) : list[j] # x) - 1
    ELSE -1

\* marks.splice(index, 1) with the index lastIndexOf returned: a negative
\* index counts from the end of the array.
SpliceFound(list, index) ==
  IF index >= 0 THEN SpliceOut(list, index)
  ELSE IF Len(list) = 0 THEN list
  ELSE SpliceOut(list, Len(list) - 1)

\* deleteFromAnchor.  anchorData.get(mark.key)! is undefined when the Map has
\* no array for the key, and `.lastIndexOf` of it throws.
deleteFromAnchor(fl, anchor, mark) ==
  LET anchorData == SideMap(fl[anchor.pos], anchor.before)
      marks0 == anchorData[mark.key]
      index == lastIndexOf(marks0, mark)
      marks == SpliceFound(marks0, index)
      fl1 == SetStack(fl, anchor.pos, anchor.before, mark.key, marks)
      rec == dataToRecord(SideMap(fl1[anchor.pos], anchor.before))
  IN IF mark.key \notin DOMAIN anchorData
       THEN [threw |-> TRUE, fl |-> fl, event |-> [anchor |-> anchor, data |-> NullChange]]
     ELSE IF index = Len(marks)
       THEN IF rec.threw
              THEN [threw |-> TRUE, fl |-> fl1,
                    event |-> [anchor |-> anchor, data |-> NullChange]]
              ELSE [threw |-> FALSE, fl |-> fl1,
                    event |-> [anchor |-> anchor,
                               data |-> [isNull |-> FALSE,
                                         \* marks[marks.length - 1]: the mark, not its value
                                         otherValue |-> IF Len(marks) = 0 THEN Prim(NULL)
                                                        ELSE Obj(marks[Len(marks)]),
                                         format |-> rec.rec]]]
     ELSE [threw |-> FALSE, fl |-> fl1, event |-> [anchor |-> anchor, data |-> NullChange]]

RECURSIVE DeleteLoop(_, _, _, _)
DeleteLoop(fl, anchors, mark, events) ==
  IF anchors = <<>> THEN [threw |-> FALSE, fl |-> fl, events |-> events]
  ELSE LET r == deleteFromAnchor(fl, Head(anchors), mark)
       IN IF r.threw THEN [threw |-> TRUE, fl |-> r.fl, events |-> events]
          ELSE DeleteLoop(r.fl, Tail(anchors), mark, Append(events, r.event))

DeleteChanges(slices, canonMark) ==
  LET keep == {i \in 1..Len(slices) :
                 ~slices[i].data.isNull
                 /\ slices[i].data.otherValue # Prim(canonMark.value)}
      ch(i) == [start |-> slices[i].start, end |-> slices[i].end, key |-> canonMark.key,
                value |-> slices[i].data.otherValue,
                previousValue |-> Prim(canonMark.value),
                format |-> slices[i].data.format]
      idx == SortedSeq(keep)
  IN [j \in 1..Len(idx) |-> ch(idx[j])]

\* deleteMark without the compareMarks test of its "Not present" branch: the
\* mark at the located index is removed whether or not it equals the argument.
deleteMarkNoEqualityCheck(om, fl, mark) ==
  LET index == locateMark(om, mark)
      canonMark == om[index + 1]
      om1 == SpliceOut(om, index)
      loop == DeleteLoop(fl, LoopAnchors(fl, canonMark), canonMark, <<>>)
      slices == SpanBuilder(loop.events, canonMark.end, "formatChangeEquals")
  IN IF index = TypeError THEN Result(TRUE, om, fl, <<>>)
     ELSE IF index = Len(om) THEN Result(FALSE, om, fl, <<>>)
     ELSE IF loop.threw THEN Result(TRUE, om1, loop.fl, <<>>)
     ELSE Result(FALSE, om1, loop.fl, DeleteChanges(slices, canonMark))

\* Formatting.deleteMark on the state (om, fl).
deleteMark(om, fl, mark) ==
  LET index == locateMark(om, mark)
      canonMark == om[index + 1]
      om1 == SpliceOut(om, index)
      loop == DeleteLoop(fl, LoopAnchors(fl, canonMark), canonMark, <<>>)
      slices == SpanBuilder(loop.events, canonMark.end, "formatChangeEquals")
  IN IF index = TypeError THEN Result(TRUE, om, fl, <<>>)
     ELSE IF index = Len(om) \/ compareMarks(mark, om[index + 1]) # 0
       THEN Result(FALSE, om, fl, <<>>)
     ELSE IF loop.threw THEN Result(TRUE, om1, loop.fl, <<>>)
     ELSE Result(FALSE, om1, loop.fl, DeleteChanges(slices, canonMark))

\* ---------------------------------------------------------------- queries

\* Formatting.getFormat(pos): throws for the min and max Position.
getFormat(fl, pos) ==
  IF pos = MIN_POSITION \/ pos = MAX_POSITION THEN [threw |-> TRUE, rec |-> EmptyMap]
  ELSE IF pos \in DOMAIN fl /\ fl[pos].hasBefore THEN dataToRecord(fl[pos].before)
  ELSE LET prevIndex == indexOfPositionLeft(fl, pos)
           prevData == fl[positionAt(fl, prevIndex)]
       IN dataToRecord(IF prevData.hasAfter THEN prevData.after ELSE prevData.before)

\* The add(anchor, data) calls formattedSpans makes for one entry.
SpanEvents(fl, pos) ==
  (IF fl[pos].hasBefore
     THEN <<[anchor |-> MkAnchor(pos, TRUE), data |-> dataToRecord(fl[pos].before)]>>
     ELSE <<>>)
  \o (IF fl[pos].hasAfter
        THEN <<[anchor |-> MkAnchor(pos, FALSE), data |-> dataToRecord(fl[pos].after)]>>
        ELSE <<>>)

RECURSIVE AllSpanEvents(_, _)
AllSpanEvents(fl, ps) ==
  IF ps = <<>> THEN <<>>
  ELSE SpanEvents(fl, Head(ps)) \o AllSpanEvents(fl, Tail(ps))

\* Formatting.formattedSpans()
formattedSpans(fl) ==
  LET raw == AllSpanEvents(fl, SortedSeq(DOMAIN fl))
      events == [i \in 1..Len(raw) |-> [anchor |-> raw[i].anchor, data |-> raw[i].data.rec]]
      slices == SpanBuilder(events, MAX_ANCHOR, "recordEquals")
  IN IF \E i \in 1..Len(raw) : raw[i].data.threw
       THEN [threw |-> TRUE, spans |-> <<>>]
       ELSE [threw |-> FALSE,
             spans |-> [i \in 1..Len(slices) |->
                          [start |-> slices[i].start, end |-> slices[i].end,
                           format |-> slices[i].data]]]

\* Formatting.save(): a copy of orderedMarks.
save(om) == om

RECURSIVE LoadLoop(_, _, _)
\* The rest of load's loop after an addMark with outcome r: an exception ends
\* the loop.
LoadStep(r, rest) ==
  IF r.threw THEN Result(TRUE, r.orderedMarks, r.formatList, <<>>)
  ELSE LoadLoop(r.orderedMarks, r.formatList, rest)

\* for (const mark of savedState) this.addMark(mark);
LoadLoop(om, fl, savedState) ==
  IF savedState = <<>> THEN Result(FALSE, om, fl, <<>>)
  ELSE LoadStep(addMark(om, fl, Head(savedState)), Tail(savedState))

\* Formatting.load(savedState): clear(), then addMark of each mark in turn.
load(savedState) == LoadLoop(<<>>, InitFormatList, savedState)

\* ---------------------------------------------------------------- inputs

\* The spans of the marks handed to addMark: from the minimum anchor, an
\* embed (before to after one position), from after the first position to the
\* end, and three that addMark rejects: start = end, start after and end
\* before one position, and start at a later position than end.
InputSpans ==
  {<<MIN_ANCHOR, MkAnchor(NPos, TRUE)>>,
   <<MkAnchor(1, TRUE), MkAnchor(1, FALSE)>>,
   <<MkAnchor(1, FALSE), MAX_ANCHOR>>,
   <<MkAnchor(1, FALSE), MkAnchor(1, FALSE)>>,
   <<MkAnchor(1, FALSE), MkAnchor(1, TRUE)>>,
   <<MkAnchor(NPos, TRUE), MkAnchor(1, FALSE)>>}

\* The (creatorID, timestamp) pairs of the marks handed in: alice's marks, and
\* one mark of bob's with the timestamp of alice's first.
MarkIDs == {<<"alice", t>> : t \in 1..MaxTs} \cup {<<"bob", 1>>}

MarkInputs ==
  {MkMark(se[1], se[2], kv[1], kv[2], id[1], id[2]) :
     se \in InputSpans, kv \in KeyValues, id \in MarkIDs}

\* deleteMark reads its argument through compareMarks only: one argument per
\* (creatorID, timestamp) is given, which is or is not the stored object.
DeleteInputs ==
  {m \in MarkInputs : m.start = MIN_ANCHOR /\ m.key = "bold" /\ m.value = NULL}

Reverse(list) == [i \in 1..Len(list) |-> list[Len(list) + 1 - i]]

\* ---------------------------------------------------------------- actions

Init ==
  /\ orderedMarks = <<>>
  /\ formatList = InitFormatList
  /\ lastOp = "new"
  /\ lastMark = NoMark
  /\ lastThrew = FALSE
  /\ lastChanges = <<>>
  /\ inserted = 0
  /\ timestamp = 0
  /\ returned = {}
  /\ observed = {}
  /\ thisList = {}
  /\ created = {}
  /\ expandRules = "undefined"
  /\ facadeCall = NoFacadeCall
  /\ helperCall = NoHelperCall

Update(op, mark, r) ==
  /\ orderedMarks' = r.orderedMarks
  /\ formatList' = r.formatList
  /\ lastOp' = op
  /\ lastMark' = mark
  /\ lastThrew' = r.threw
  /\ lastChanges' = r.changes

\* A call on a plain Formatting: there is no Lamport timestamp to update.
Finish(op, mark, r) ==
  /\ Update(op, mark, r)
  /\ UNCHANGED <<timestamp, returned, observed>>
  /\ UNCHANGED facadeVars

\* As Finish, with the marks the call spliced into orderedMarks counted.
FinishCounted(op, mark, r, before) ==
  /\ Finish(op, mark, r)
  /\ inserted' = before + Len(r.orderedMarks)

AddMark ==
  \E mark \in MarkInputs :
    /\ inserted < MaxMarks
    /\ FinishCounted("addMark", mark, addMark(orderedMarks, formatList, mark),
                     inserted - Len(orderedMarks))

DeleteMark ==
  \E mark \in DeleteInputs :
    /\ UNCHANGED inserted
    /\ Finish("deleteMark", mark, deleteMark(orderedMarks, formatList, mark))

Load ==
  \E savedState \in {save(orderedMarks), Reverse(save(orderedMarks))} :
    \* load inserts every mark up to the one whose addMark throws; a mark it
    \* skips as already present is not in orderedMarks twice
    FinishCounted("load", NoMark, load(savedState), 0)

Clear ==
  /\ Finish("clear", NoMark, Result(FALSE, <<>>, InitFormatList, <<>>))
  /\ inserted' = 0

Next == AddMark \/ DeleteMark \/ Load \/ Clear

Spec == Init /\ [][Next]_vars

\* Sequences of addMark and deleteMark calls only, and of addMark calls only.
NextAddDelete == AddMark \/ DeleteMark
SpecAddDelete == Init /\ [][NextAddDelete]_vars

NextAdd == AddMark
SpecAdd == Init /\ [][NextAdd]_vars

\* ---------------------------------------------------------------- properties

\* marks(): the stored marks, as a set.
Stored(om) == {om[i] : i \in 1..Len(om)}

\* Some stored mark is compare-equal to mark.
HasEqual(om, mark) == \E i \in 1..Len(om) : compareMarks(mark, om[i]) = 0

\* The anchor a lies in the half-open span [m.start, m.end).
Covers(m, a) == AnchorsCompare(m.start, a) <= 0 /\ AnchorsCompare(a, m.end) < 0

\* The marks of S with key k that cover a, and the greatest of them.
Covering(S, k, a) == {m \in S : m.key = k /\ Covers(m, a)}
IsGreatest(m, C) == m \in C /\ \A n \in C : compareMarks(n, m) <= 0
Greatest(C) == CHOOSE m \in C : IsGreatest(m, C)

\* The format the data model defines at anchor a for the set S of marks.
FormatOf(S, a) ==
  [k \in {x \in Keys : Covering(S, x, a) # {}
                        /\ Greatest(Covering(S, x, a)).value # NULL}
     |-> Greatest(Covering(S, k, a)).value]

RECURSIVE Ascending(_)
\* The marks of S in ascending compareMarks order.
Ascending(S) ==
  IF S = {} THEN <<>>
  ELSE LET m == CHOOSE x \in S : \A y \in S : compareMarks(x, y) <= 0
       IN <<m>> \o Ascending(S \ {m})

\* The value a format gives a key, null for an absent key; FormatThrew when
\* the query threw.
FormatThrew == Prim("TypeError")
ValueAt(res, k) ==
  IF res.threw THEN FormatThrew
  ELSE IF k \in DOMAIN res.rec THEN Prim(res.rec[k]) ELSE Prim(NULL)

\* The positions p whose anchor (p, before) lies in [r.start, r.end).
PositionsIn(r) ==
  {p \in RealPositions :
     AnchorsCompare(r.start, MkAnchor(p, TRUE)) <= 0
     /\ AnchorsCompare(MkAnchor(p, TRUE), r.end) < 0}

AllFormats(fl) == [p \in RealPositions |-> getFormat(fl, p)]

\* C1: after any sequence of addMark, deleteMark, load and clear, getFormat(p)
\* maps every key to the value of the greatest stored mark with that key whose
\* span [start, end) contains (p, before), and omits the key when there is no
\* such mark or its value is null.
C1_GetFormatIsGreatestCoveringMark ==
  \A p \in RealPositions :
    getFormat(formatList, p)
      = [threw |-> FALSE, rec |-> FormatOf(Stored(orderedMarks), MkAnchor(p, TRUE))]

\* C2: getFormat at every position and formattedSpans() are the same after
\* any two sequences of addMark and deleteMark calls that leave the same set
\* of marks (no two compare-equal): here the sequence made so far, and addMark
\* of the stored marks in ascending order on a new instance.
C2_SameMarksSameFormats ==
  LET c == load(Ascending(Stored(orderedMarks)))
  IN (/\ \A i, j \in 1..Len(orderedMarks) :
           compareMarks(orderedMarks[i], orderedMarks[j]) = 0 => i = j
      /\ ~c.threw
      /\ Stored(c.orderedMarks) = Stored(orderedMarks))
       => /\ formattedSpans(formatList) = formattedSpans(c.formatList)
          /\ AllFormats(formatList) = AllFormats(c.formatList)

\* C3: adding a set of valid marks (no two compare-equal) to an empty
\* Formatting gives the same formattedSpans() in every order: the order of the
\* calls made so far gives what ascending order gives.
C3_AddOrderIrrelevant ==
  LET c == load(Ascending(Stored(orderedMarks)))
  IN (/\ Cardinality(Stored(orderedMarks)) = Len(orderedMarks)
      /\ \A m, n \in Stored(orderedMarks) : compareMarks(m, n) = 0 => m = n
      /\ ~lastThrew /\ ~c.threw
      /\ Stored(c.orderedMarks) = Stored(orderedMarks))
       => formattedSpans(formatList) = formattedSpans(c.formatList)

\* C4: addMark(m) with a compare-equal mark already stored returns no changes
\* and leaves marks() and formattedSpans() as they were.
C4_DuplicateAddIsNoOp ==
  [][(lastOp' = "addMark" /\ HasEqual(orderedMarks, lastMark'))
       => /\ ~lastThrew'
          /\ lastChanges' = <<>>
          /\ orderedMarks' = orderedMarks
          /\ formattedSpans(formatList') = formattedSpans(formatList)]_vars

\* C5: deleteMark(m) with no compare-equal mark stored returns no changes and
\* leaves marks() and formattedSpans() as they were.
C5_AbsentDeleteIsNoOp ==
  [][(lastOp' = "deleteMark" /\ ~HasEqual(orderedMarks, lastMark'))
       => /\ ~lastThrew'
          /\ lastChanges' = <<>>
          /\ orderedMarks' = orderedMarks
          /\ formattedSpans(formatList') = formattedSpans(formatList)
          /\ AllFormats(formatList') = AllFormats(formatList)]_vars

\* A deleteMark of a mark that is not stored has returned, with two or more
\* marks stored and none removed since the last clear(): the call went past
\* the tail test of locateMark and removed nothing.
C5_Witness ==
  /\ lastOp = "deleteMark"
  /\ ~lastThrew
  /\ lastChanges = <<>>
  /\ Len(orderedMarks) >= 2
  /\ inserted = Len(orderedMarks)
  /\ ~HasEqual(orderedMarks, lastMark)
  /\ compareMarks(lastMark, orderedMarks[Len(orderedMarks)]) < 0

\* The marks addMark accepts: start before end, or an embed.
ValidRange(m) ==
  \/ OrderCompare(m.start.pos, m.end.pos) < 0
  \/ (m.start.pos = m.end.pos /\ m.start.before /\ ~m.end.before)

\* C6: for a mark m that is not stored, addMark(m) then deleteMark(m) returns
\* marks(), formattedSpans() and getFormat at every position to what they were.
C6_AddThenDeleteRestores ==
  \A m \in MarkInputs :
    (ValidRange(m) /\ ~HasEqual(orderedMarks, m))
      => LET a == addMark(orderedMarks, formatList, m)
             d == deleteMark(a.orderedMarks, a.formatList, m)
         IN /\ ~a.threw /\ ~d.threw
            /\ d.orderedMarks = orderedMarks
            /\ formattedSpans(d.formatList) = formattedSpans(formatList)
            /\ AllFormats(d.formatList) = AllFormats(formatList)

\* The span of formattedSpans() that contains the anchor a has format f.
SpanAtHasFormat(spans, a, f) ==
  \E i \in 1..Len(spans) :
    /\ AnchorsCompare(spans[i].start, a) <= 0
    /\ AnchorsCompare(a, spans[i].end) < 0
    /\ spans[i].format = f

\* C7: getFormat(p) is the format of the span of formattedSpans() that
\* contains (p, before).
C7_GetFormatAgreesWithSpans ==
  LET r == formattedSpans(formatList)
  IN \A p \in RealPositions :
       /\ ~r.threw
       /\ ~getFormat(formatList, p).threw
       /\ SpanAtHasFormat(r.spans, MkAnchor(p, TRUE), getFormat(formatList, p).rec)

\* C8: formattedSpans() is a gap-free partition of [MIN_ANCHOR, MAX_ANCHOR)
\* into non-empty spans, adjacent spans having different formats.
C8_SpansPartition ==
  LET r == formattedSpans(formatList)
      s == r.spans
  IN /\ ~r.threw
     /\ Len(s) >= 1
     /\ s[1].start = MIN_ANCHOR
     /\ s[Len(s)].end = MAX_ANCHOR
     /\ \A i \in 1..Len(s) : AnchorsCompare(s[i].start, s[i].end) < 0
     /\ \A i \in 1..(Len(s) - 1) :
          s[i + 1].start = s[i].end /\ s[i + 1].format # s[i].format

\* C9: after addMark(m), getFormat(p)[m.key] is r.value at every position p
\* of every change record r returned (absent when r.value is null).
C9_ChangeValueIsNewFormat ==
  [][(lastOp' = "addMark" /\ ~lastThrew')
       => \A i \in 1..Len(lastChanges') :
            \A p \in PositionsIn(lastChanges'[i]) :
              ValueAt(getFormat(formatList', p), lastChanges'[i].key)
                = lastChanges'[i].value]_vars

\* C10: r.previousValue of every change record r returned by addMark(m) is
\* what getFormat(p)[m.key] was before the call at every position p of r,
\* null for an absent key.
C10_PreviousValueIsOldFormat ==
  [][(lastOp' = "addMark" /\ ~lastThrew')
       => \A i \in 1..Len(lastChanges') :
            \A p \in PositionsIn(lastChanges'[i]) :
              lastChanges'[i].previousValue
                = ValueAt(getFormat(formatList, p), lastChanges'[i].key)]_vars

\* The anchors that lie in [r.start, r.end).
AnchorsIn(r) ==
  {a \in {MkAnchor(p, b) : p \in MIN_POSITION..MAX_POSITION, b \in BOOLEAN} :
     AnchorsCompare(r.start, a) <= 0 /\ AnchorsCompare(a, r.end) < 0}

\* The value of the greatest mark of S with key k that covers a, null when
\* there is none.
WinnerValue(S, k, a) ==
  IF Covering(S, k, a) = {} THEN NULL ELSE Greatest(Covering(S, k, a)).value

\* C11: every change record r returned by deleteMark(m) has r.previousValue =
\* the deleted mark's value, and r.value = the value of the greatest remaining
\* mark with m.key that covers [r.start, r.end), null when there is none.
C11_DeleteChangeValues ==
  [][(lastOp' = "deleteMark" /\ ~lastThrew')
       => \A i \in 1..Len(lastChanges') :
            /\ \E m \in Stored(orderedMarks) :
                 /\ compareMarks(m, lastMark') = 0
                 /\ lastChanges'[i].previousValue = Prim(m.value)
            /\ \A a \in AnchorsIn(lastChanges'[i]) :
                 lastChanges'[i].value
                   = Prim(WinnerValue(Stored(orderedMarks'), lastChanges'[i].key, a))]_vars

\* The value a format record gives a key, null for an absent key.
RecordValue(rec, k) == IF k \in DOMAIN rec THEN Prim(rec[k]) ELSE Prim(NULL)

\* C12: for every change record r returned by addMark(m) or deleteMark(m),
\* r.format is getFormat(p) after the call at every position p of
\* [r.start, r.end), and every key other than m.key has in r.format the value
\* it had at p before the call.
C12_ChangeFormatIsNewFormat ==
  [][((lastOp' = "addMark" \/ lastOp' = "deleteMark") /\ ~lastThrew')
       => \A i \in 1..Len(lastChanges') :
            \A p \in PositionsIn(lastChanges'[i]) :
              /\ getFormat(formatList', p)
                   = [threw |-> FALSE, rec |-> lastChanges'[i].format]
              /\ \A k \in Keys \ {lastChanges'[i].key} :
                   RecordValue(lastChanges'[i].format, k)
                     = ValueAt(getFormat(formatList, p), k)]_vars

\* C13: after addMark(m) or deleteMark(m), getFormat(p) is what it was before
\* the call at every position p outside the spans of the returned change
\* records, and no key other than m.key changes at any position.
C13_FormatsOutsideChangesKept ==
  [][((lastOp' = "addMark" \/ lastOp' = "deleteMark") /\ ~lastThrew')
       => \A p \in RealPositions :
            /\ (\A i \in 1..Len(lastChanges') : p \notin PositionsIn(lastChanges'[i]))
                 => getFormat(formatList', p) = getFormat(formatList, p)
            /\ \A k \in Keys :
                 (/\ lastOp' = "addMark" => k # lastMark'.key
                  /\ lastOp' = "deleteMark"
                       => \A m \in Stored(orderedMarks) :
                            compareMarks(m, lastMark') = 0 => k # m.key)
                   => ValueAt(getFormat(formatList', p), k)
                        = ValueAt(getFormat(formatList, p), k)]_vars

\* The mark from (p, before) to (p, after) on one position.
IsEmbed(m) == m.start.pos = m.end.pos /\ m.start.before /\ ~m.end.before

InvalidAnchor(a) ==
  (a.pos = MIN_POSITION \/ a.pos = MAX_POSITION) /\ ((a.pos = MIN_POSITION) = a.before)

\* Spans with an anchor outside [MIN_ANCHOR, MAX_ANCHOR]: one that starts
\* before the minimum position, one that ends after the maximum position.
InvalidAnchorSpans ==
  {<<MkAnchor(MIN_POSITION, TRUE), MkAnchor(NPos, TRUE)>>,
   <<MkAnchor(1, FALSE), MkAnchor(MAX_POSITION, FALSE)>>}

InvalidAnchorInputs ==
  {MkMark(se[1], se[2], kv[1], kv[2], id[1], id[2]) :
     se \in InvalidAnchorSpans, kv \in KeyValues, id \in MarkIDs}

\* addMark called with a mark that has an invalid anchor.
AddMarkInvalidAnchor ==
  \E mark \in InvalidAnchorInputs :
    /\ inserted < MaxMarks
    /\ FinishCounted("addMark", mark, addMark(orderedMarks, formatList, mark),
                     inserted - Len(orderedMarks))

\* Sequences of addMark calls, some with invalid anchors, and clear calls.
NextAnchors == AddMark \/ AddMarkInvalidAnchor \/ Clear
SpecAnchors == Init /\ [][NextAnchors]_vars

\* C15: an addMark of a mark whose start or end is the invalid anchor
\* (MIN_POS, before) or (MAX_POS, after) throws and changes nothing: marks(),
\* getFormat at every position and formattedSpans() are as before the call.
C15_InvalidAnchorFails ==
  [][lastOp' = "addMark"
       /\ (InvalidAnchor(lastMark'.start) \/ InvalidAnchor(lastMark'.end))
     => /\ lastThrew'
        /\ orderedMarks' = orderedMarks
        /\ AllFormats(formatList') = AllFormats(formatList)
        /\ formattedSpans(formatList') = formattedSpans(formatList)]_vars

\* C16: in every reachable state getFormat(MIN_POS) and getFormat(MAX_POS)
\* throw, and getFormat of every other position, the first and the last list
\* position included, returns a format.
C16_GetFormatFailsOnlyAtBoundary ==
  /\ getFormat(formatList, MIN_POSITION).threw
  /\ getFormat(formatList, MAX_POSITION).threw
  /\ \A p \in RealPositions : ~getFormat(formatList, p).threw

\* The instance left by load(savedState) shows the spans of the index fl.
RestoresSpans(r, fl) ==
  /\ ~r.threw
  /\ ~formattedSpans(fl).threw
  /\ formattedSpans(r.formatList) = formattedSpans(fl)

\* C17: in every reachable state, load(save()) on the cleared instance or on
\* a fresh one returns without throwing and leaves formattedSpans() identical
\* to formattedSpans() at the time of the save.
C17_SaveLoadRestoresSpans ==
  RestoresSpans(load(save(orderedMarks)), formatList)

\* No two marks of the list are compare-equal.
Distinct(list) ==
  \A i, j \in 1..Len(list) : compareMarks(list[i], list[j]) = 0 => i = j

\* The list is in ascending compareMarks order.
IsAscending(list) ==
  \A i, j \in 1..Len(list) : i < j => compareMarks(list[i], list[j]) < 0

\* C18: load(S), for S the stored marks (no two compare-equal) listed in
\* the stored or in the reverse order, returns having replaced the state: the
\* stored marks are exactly the marks of S, and marks()/save() list them in
\* ascending compareMarks order.
C18_LoadOverwritesInOrder ==
  [][lastOp' = "load" /\ Distinct(orderedMarks)
     => /\ ~lastThrew'
        /\ Stored(orderedMarks') = Stored(orderedMarks)
        /\ Len(orderedMarks') = Len(orderedMarks)
        /\ IsAscending(save(orderedMarks'))]_vars

\* ------------------------------------------------------ TimestampFormatting

\* options.replicaID of the instance.
replicaID == "alice"

\* The (creatorID, timestamp) pair of a mark; compareTimestampMarks reads no
\* other field.
MarkID(m) == [creatorID |-> m.creatorID, timestamp |-> m.timestamp]

\* A newMark that reads this.timestamp without incrementing it.
newMarkSameTimestamp(ts) == ts

\* `++this.timestamp` in newMark: the new value of the field, which is also
\* the timestamp of the mark returned.
newMarkTimestamp(ts) == ts + 1

\* TimestampFormatting.newMark on an instance whose timestamp is ts.
newMark(ts, start, end, key, value) ==
  MkMark(start, end, key, value, replicaID, newMarkTimestamp(ts))

\* An addMark that leaves this.timestamp alone.
addMarkKeepTimestamp(ts, mark) == ts

\* addMark taking the timestamp of the mark as it is.
addMarkTakeTimestamp(ts, mark) == mark.timestamp

\* `this.timestamp = Math.max(this.timestamp, mark.timestamp)` in addMark,
\* made before super.addMark(mark) is called.
addMarkTimestamp(ts, mark) == Max(ts, mark.timestamp)

\* The outcome of a TimestampFormatting call: that of the Formatting call
\* it makes, and the timestamp field it leaves.
WithTimestamp(r, ts) ==
  [threw |-> r.threw, orderedMarks |-> r.orderedMarks, formatList |-> r.formatList,
   changes |-> r.changes, timestamp |-> ts]

RECURSIVE TimestampLoadLoop(_, _, _, _)
\* The rest of the loop of Formatting.load after a this.addMark(mark) (the
\* override of TimestampFormatting) that left outcome r and timestamp ts.
TimestampLoadStep(r, ts, rest) ==
  IF r.threw THEN WithTimestamp(r, ts)
  ELSE TimestampLoadLoop(r.orderedMarks, r.formatList, ts, rest)

TimestampLoadLoop(om, fl, ts, savedState) ==
  IF savedState = <<>> THEN WithTimestamp(Result(FALSE, om, fl, <<>>), ts)
  ELSE TimestampLoadStep(addMark(om, fl, Head(savedState)),
                         addMarkTimestamp(ts, Head(savedState)),
                         Tail(savedState))

\* After super.load(savedState) has returned: the timestamp of the last
\* mark of a non-empty savedState is taken into this.timestamp.
TimestampLoadEnd(l, savedState) ==
  IF l.threw \/ Len(savedState) = 0 THEN l
  ELSE [l EXCEPT !.timestamp = Max(l.timestamp, savedState[Len(savedState)].timestamp)]

\* TimestampFormatting.load(savedState) on an instance whose timestamp is ts.
timestampLoad(ts, savedState) ==
  TimestampLoadEnd(TimestampLoadLoop(<<>>, InitFormatList, ts, savedState), savedState)

\* The marks handed to a TimestampFormatting: over the whole list or an
\* embed, setting bold, with each of the MarkIDs.
TimestampSpans ==
  {<<MIN_ANCHOR, MkAnchor(NPos, TRUE)>>, <<MkAnchor(1, TRUE), MkAnchor(1, FALSE)>>}
TimestampKeyValues == {<<"bold", "v1">>}
TimestampMarkInputs ==
  {MkMark(se[1], se[2], kv[1], kv[2], id[1], id[2]) :
     se \in TimestampSpans, kv \in TimestampKeyValues, id \in MarkIDs}

\* The saved states handed to load: up to two marks of another instance, no
\* two compare-equal, in ascending or descending order.
SavedMarks == {m \in TimestampMarkInputs : m.start = MIN_ANCHOR /\ m.value = "v1"}
SavedStates ==
  {<<>>} \cup {<<m>> : m \in SavedMarks}
    \cup {st \in SavedMarks \X SavedMarks : compareMarks(st[1], st[2]) # 0}

NewMark ==
  \E se \in TimestampSpans, kv \in TimestampKeyValues :
    /\ timestamp < MaxCounter
    /\ lastOp' = "newMark"
    /\ lastMark' = newMark(timestamp, se[1], se[2], kv[1], kv[2])
    /\ lastThrew' = FALSE
    /\ lastChanges' = <<>>
    /\ timestamp' = newMarkTimestamp(timestamp)
    /\ returned' = returned \cup {MarkID(lastMark')}
    /\ UNCHANGED <<orderedMarks, formatList, inserted, observed>>
    /\ UNCHANGED facadeVars

\* TimestampFormatting.addMark(mark) with outcome r of super.addMark(mark).
TimestampAddStep(mark, r) ==
  /\ Update("addMark", mark, r)
  /\ inserted' = inserted - Len(orderedMarks) + Len(r.orderedMarks)
  /\ timestamp' = addMarkTimestamp(timestamp, mark)
  /\ observed' = observed \cup {MarkID(mark)}
  /\ UNCHANGED returned
  /\ UNCHANGED facadeVars

\* addMark of a mark of another instance, or of the mark newMark has just
\* returned.
TimestampAddMark ==
  \E mark \in TimestampMarkInputs \cup (IF lastOp = "newMark" THEN {lastMark} ELSE {}) :
    /\ inserted < MaxMarks
    /\ TimestampAddStep(mark, addMark(orderedMarks, formatList, mark))

\* TimestampFormatting.load(savedState) with outcome l.
TimestampLoadDone(l, savedState) ==
  /\ Update("load", NoMark, l)
  /\ inserted' = Len(l.orderedMarks)
  /\ timestamp' = l.timestamp
  /\ observed' = IF l.threw THEN observed
                 ELSE observed \cup {MarkID(savedState[i]) : i \in 1..Len(savedState)}
  /\ UNCHANGED returned
  /\ UNCHANGED facadeVars

TimestampLoad ==
  \E savedState \in SavedStates :
    TimestampLoadDone(timestampLoad(timestamp, savedState), savedState)

\* The calls on a TimestampFormatting; deleteMark and clear are inherited.
NextTimestamp == NewMark \/ TimestampAddMark \/ DeleteMark \/ TimestampLoad \/ Clear
SpecTimestamp == Init /\ [][NextTimestamp]_vars

\* C19: in any sequence of newMark, addMark, deleteMark, load and clear calls
\* on one TimestampFormatting, the mark newMark returns is strictly greater
\* under compareMarks than every mark newMark returned before and every mark
\* passed before to addMark or to a load that returned; and when that mark is
\* added next, it is stored and no stored mark is greater.
C19_NewMarkGreaterThanSeen ==
  [][/\ lastOp' = "newMark"
          => \A id \in returned \cup observed : compareMarks(lastMark', id) > 0
     /\ (lastOp = "newMark" /\ lastOp' = "addMark" /\ lastMark' = lastMark)
          => /\ lastMark' \in Stored(orderedMarks')
             /\ \A n \in Stored(orderedMarks') : compareMarks(n, lastMark') <= 0]_vars

\* newMark has returned its second mark or a later one, right after a mark of
\* another instance with the timestamp just below was passed in.
C19_Witness ==
  /\ lastOp = "newMark"
  /\ Cardinality(returned) >= 2
  /\ \E id \in observed \ returned :
       id.creatorID # replicaID /\ id.timestamp + 1 = lastMark.timestamp

\* C20: over any interleaving of newMark with addMark, deleteMark, load and
\* clear, newMark never returns a (creatorID, timestamp) pair it has returned
\* before, the timestamp it returns is a positive integer, and the
\* instance's counter never decreases.
C20_NewMarkIdsUnique ==
  [][/\ timestamp' >= timestamp
     /\ lastOp' = "newMark"
          => /\ MarkID(lastMark') \notin returned
             /\ lastMark'.creatorID = replicaID
             /\ lastMark'.timestamp \in Nat \ {0}]_vars

\* newMark has returned a third mark on an instance that was passed marks
\* and holds none of them any more.
C20_Witness ==
  /\ lastOp = "newMark"
  /\ Cardinality(returned) >= 3
  /\ observed # {}
  /\ orderedMarks = <<>>

\* C29: in every reachable state orderedMarks, as marks() and save() return
\* it, is strictly ascending under compareMarks: sorted, with no two
\* compare-equal marks.
C29_OrderedMarksAscending == IsAscending(save(orderedMarks))

\* C30: in every reachable state the array of marks held for a key at a
\* populated side of an index entry is sorted ascending by compareMarks, so
\* that its last element is the greatest mark in it.
C30_StacksAscending ==
  \A p \in DOMAIN formatList :
    /\ formatList[p].hasBefore
         => \A k \in DOMAIN formatList[p].before : IsAscending(formatList[p].before[k])
    /\ formatList[p].hasAfter
         => \A k \in DOMAIN formatList[p].after : IsAscending(formatList[p].after[k])

\* ------------------------------------------------------------ list, helpers

\* A List is modelled by the set of the positions present in it; its indices
\* follow the order of the positions.
Expands == {"after", "before", "both", "none"}

Length(l) == Cardinality(l)

\* List.positionAt(index) throws unless 0 <= index < length.
InRange(l, index) == 0 <= index /\ index < Length(l)
listPositionAt(l, index) == SortedSeq(l)[index + 1]

\* List.indexOfPosition(pos, searchDir): the index of pos; for an absent pos
\* the index to its left ("left"), to its right ("right"), or -1.
listIndexOfPosition(l, pos, searchDir) ==
  LET k == Cardinality({q \in l : q < pos})
  IN IF pos \in l THEN k
     ELSE IF searchDir = "left" THEN k - 1
     ELSE IF searchDir = "right" THEN k
     ELSE -1

NoSpan == [threw |-> TRUE, start |-> MIN_ANCHOR, end |-> MIN_ANCHOR]

\* spanFromSlice after its test of startIndex against endIndex; a positionAt
\* call with an index out of range throws.
SpanOfSlice(l, startIndex, endIndex, expand) ==
  LET atLeft == expand = "before" \/ expand = "both"
      atRight == expand = "after" \/ expand = "both"
      startThrows == IF atLeft THEN startIndex # 0 /\ ~InRange(l, startIndex - 1)
                     ELSE ~InRange(l, startIndex)
      endThrows == IF atRight THEN endIndex # Length(l) /\ ~InRange(l, endIndex)
                   ELSE ~InRange(l, endIndex - 1)
      start == IF atLeft
                 THEN MkAnchor(IF startIndex = 0 THEN MIN_POSITION
                               ELSE listPositionAt(l, startIndex - 1), FALSE)
                 ELSE MkAnchor(listPositionAt(l, startIndex), TRUE)
      end == IF atRight
               THEN MkAnchor(IF endIndex = Length(l) THEN MAX_POSITION
                             ELSE listPositionAt(l, endIndex), TRUE)
               ELSE MkAnchor(listPositionAt(l, endIndex - 1), FALSE)
  IN IF startThrows \/ endThrows THEN NoSpan
     ELSE [threw |-> FALSE, start |-> start, end |-> end]

\* A spanFromSlice that accepts an empty slice.
spanFromSliceNoEmptyCheck(l, startIndex, endIndex, expand) ==
  SpanOfSlice(l, startIndex, endIndex, expand)

\* A spanFromSlice that expands at the end whatever `expand` says.
spanFromSliceExpandAfter(l, startIndex, endIndex, expand) ==
  IF startIndex >= endIndex THEN NoSpan
  ELSE SpanOfSlice(l, startIndex, endIndex, "after")

\* spanFromSlice(list, startIndex, endIndex, expand).
spanFromSlice(l, startIndex, endIndex, expand) ==
  IF startIndex >= endIndex THEN NoSpan
  ELSE SpanOfSlice(l, startIndex, endIndex, expand)

\* An indexOfAnchor that searches to the right for both kinds of anchor.
indexOfAnchorRight(l, anchor) == listIndexOfPosition(l, anchor.pos, "right")

\* Anchors.indexOfAnchor(list, anchor), for an anchor that validate accepts.
indexOfAnchor(l, anchor) ==
  IF anchor.before THEN listIndexOfPosition(l, anchor.pos, "right")
  ELSE listIndexOfPosition(l, anchor.pos, "left") + 1

\* sliceFromSpan(list, start, end); Anchors.validate throws for an invalid
\* anchor.
sliceFromSpan(l, start, end) ==
  IF InvalidAnchor(start) \/ InvalidAnchor(end)
    THEN [threw |-> TRUE, startIndex |-> 0, endIndex |-> 0]
    ELSE [threw |-> FALSE, startIndex |-> indexOfAnchor(l, start),
          endIndex |-> indexOfAnchor(l, end)]

\* The slice indices handed to spanFromSlice: from one below 0 to one above
\* the greatest possible length.
SliceIndices == (0 - 1)..(NPos + 1)

\* Any list over the positions, and no call made yet.
InitHelpers ==
  /\ orderedMarks = <<>>
  /\ formatList = InitFormatList
  /\ lastOp = "new"
  /\ lastMark = NoMark
  /\ lastThrew = FALSE
  /\ lastChanges = <<>>
  /\ inserted = 0
  /\ timestamp = 0
  /\ returned = {}
  /\ observed = {}
  /\ thisList \in SUBSET RealPositions
  /\ created = thisList
  /\ expandRules = "undefined"
  /\ facadeCall = NoFacadeCall
  /\ helperCall = NoHelperCall

\* A call of a helper function changes no object.
HelperDone(call) ==
  /\ helperCall' = call
  /\ UNCHANGED <<orderedMarks, formatList, lastOp, lastMark, lastThrew, lastChanges,
                 inserted, timestamp, returned, observed,
                 thisList, created, expandRules, facadeCall>>

\* The record of a spanFromSlice call with result span.
SpanCall(startIndex, endIndex, expand, span) ==
  [op |-> "spanFromSlice", startIndex |-> startIndex, endIndex |-> endIndex,
   expand |-> expand, threw |-> span.threw, start |-> span.start, end |-> span.end,
   slice |-> NoHelperCall.slice]

SpanFromSlice ==
  \E startIndex \in SliceIndices, endIndex \in SliceIndices, expand \in Expands :
    HelperDone(SpanCall(startIndex, endIndex, expand,
                        spanFromSlice(thisList, startIndex, endIndex, expand)))

\* sliceFromSpan of the span the last spanFromSlice call returned.
SliceFromSpan ==
  /\ helperCall.op = "spanFromSlice"
  /\ ~helperCall.threw
  /\ HelperDone([helperCall EXCEPT
                   !.op = "sliceFromSpan",
                   !.slice = sliceFromSpan(thisList, helperCall.start, helperCall.end)])

NextHelpers == SpanFromSlice \/ SliceFromSpan
SpecHelpers == InitHelpers /\ [][NextHelpers]_vars

\* The slice of the last helper call lies within the list and is not empty.
ValidSlice ==
  /\ 0 <= helperCall.startIndex
  /\ helperCall.startIndex < helperCall.endIndex
  /\ helperCall.endIndex <= Length(thisList)

\* The positions, present or not, between the elements of index i - 1 and i
\* of the list l (before its first element for i = 0, after its last for
\* i = length).
Gap(l, i) ==
  {p \in RealPositions \ l :
     /\ i > 0 => listPositionAt(l, i - 1) < p
     /\ i < Length(l) => p < listPositionAt(l, i)}

\* The span of the last helper call covers position p: (p, before) lies in
\* [start, end).
SpanCovers(p) == Covers(helperCall, MkAnchor(p, TRUE))

\* C24: for the span spanFromSlice(list, s, e, x) returns, a position not in
\* the list between list[e-1] and list[e] (after the last element when
\* e = length) is covered iff x is after or both, one between list[s-1] and
\* list[s] (before the first element when s = 0) iff x is before or both, and
\* every position from list[s] to list[e-1] is covered for every x.
C24_ExpandCoversGaps ==
  (helperCall.op = "spanFromSlice" /\ ValidSlice)
    => /\ ~helperCall.threw
       /\ \A p \in Gap(thisList, helperCall.endIndex) :
            SpanCovers(p) <=> helperCall.expand \in {"after", "both"}
       /\ \A p \in Gap(thisList, helperCall.startIndex) :
            SpanCovers(p) <=> helperCall.expand \in {"before", "both"}
       /\ \A p \in RealPositions :
            (/\ listPositionAt(thisList, helperCall.startIndex) <= p
             /\ p <= listPositionAt(thisList, helperCall.endIndex - 1))
              => SpanCovers(p)

\* spanFromSlice has returned the span of a slice with positions outside the
\* list on both of its sides, without expanding to the right.
C24_Witness ==
  /\ helperCall.op = "spanFromSlice"
  /\ ValidSlice
  /\ ~helperCall.threw
  /\ helperCall.expand = "before"
  /\ Gap(thisList, helperCall.startIndex) # {}
  /\ Gap(thisList, helperCall.endIndex) # {}

\* C25: spanFromSlice(list, s, e, x) returns a span for every slice
\* 0 <= s < e <= list.length and every expand option x, and sliceFromSpan of
\* that span on the same list is {startIndex: s, endIndex: e}.
C25_SliceFromSpanInverts ==
  /\ (helperCall.op = "spanFromSlice" /\ ValidSlice) => ~helperCall.threw
  /\ helperCall.op = "sliceFromSpan"
       => /\ ~helperCall.slice.threw
          /\ helperCall.slice.startIndex = helperCall.startIndex
          /\ helperCall.slice.endIndex = helperCall.endIndex

\* sliceFromSpan has projected a span that starts after a list element and
\* ends before MAX_POSITION.
C25_Witness ==
  /\ helperCall.op = "sliceFromSpan"
  /\ helperCall.startIndex > 0
  /\ ~helperCall.start.before
  /\ helperCall.end = MAX_ANCHOR
  /\ Length(thisList) >= 2

\* C26: spanFromSlice(list, s, e, expand) throws, and so returns no span,
\* whenever s >= e and whenever s or e lies outside [0, list.length], for
\* every expand option.
C26_SpanFromSliceRejects ==
  (helperCall.op = "spanFromSlice" /\ ~ValidSlice) => helperCall.threw

\* spanFromSlice has thrown for a slice that is not empty and ends beyond the
\* end of a list that holds elements.
C26_Witness ==
  /\ helperCall.op = "spanFromSlice"
  /\ helperCall.threw
  /\ 0 <= helperCall.startIndex
  /\ helperCall.startIndex < helperCall.endIndex
  /\ helperCall.endIndex > Length(thisList)
  /\ Length(thisList) >= 1

\* ------------------------------------------------------------------ RichList

\* options.expandRules: "undefined", or "links" for the function that gives
\* "none" for the key url and "after" for every other key.
ExpandRulesOptions == {"undefined", "links"}

\* this.expandRules === undefined ? "after" : this.expandRules(key, value)
ExpandOf(rules, key, value) ==
  IF rules = "undefined" THEN "after"
  ELSE IF key = "url" THEN "none" ELSE "after"

\* A format object is the sequence of its entries <<key, value>> in
\* insertion order; FormatRecord is the function it stands for.
FormatRecord(entries) ==
  [k \in {entries[i][1] : i \in 1..Len(entries)}
     |-> (CHOOSE e \in {entries[i] : i \in 1..Len(entries)} : e[1] = k)[2]]

\* The orders in which Object.entries can list the keys of a format that
\* getFormat returned.
KeyOrders(current) ==
  IF Cardinality(DOMAIN current) < 2 THEN {<<"bold", "url">>}
  ELSE {<<"bold", "url">>, <<"url", "bold">>}

\* A diffFormats that does not look at `current`.
diffFormatsNoCurrent(current, target, currentOrder) ==
  LET NotNull(e) == e[2] # NULL
  IN SelectSeq(target, NotNull)

\* A diffFormats that keeps the entries of target that current already has.
diffFormatsKeepSame(current, target, currentOrder) ==
  LET NotNull(e) == e[2] # NULL
      wanted == SelectSeq(target, NotNull)
      wantedKeys == {wanted[i][1] : i \in 1..Len(wanted)}
      Unwanted(k) == k \in DOMAIN current /\ current[k] # NULL /\ k \notin wantedKeys
      unwanted == SelectSeq(currentOrder, Unwanted)
  IN wanted \o [i \in 1..Len(unwanted) |-> <<unwanted[i], NULL>>]

\* diffFormats(current, target): the entries of the Map returned, in its
\* order.  current is a function from keys to values, its keys listed in
\* currentOrder; an entry of current that is null is skipped.
diffFormats(current, target, currentOrder) ==
  LET NotNull(e) == e[2] # NULL
      wanted == SelectSeq(target, NotNull)
      wantedKeys == {wanted[i][1] : i \in 1..Len(wanted)}
      Missing(e) == ~(e[1] \in DOMAIN current /\ current[e[1]] = e[2])
      Unwanted(k) == k \in DOMAIN current /\ current[k] # NULL /\ k \notin wantedKeys
      unwanted == SelectSeq(currentOrder, Unwanted)
  IN SelectSeq(wanted, Missing) \o [i \in 1..Len(unwanted) |-> <<unwanted[i], NULL>>]

\* RichList.getFormatAt(index).
getFormatAt(fl, l, index) == getFormat(fl, listPositionAt(l, index))

\* The state of the formatting during a call on the RichList: whether an
\* exception has escaped, the marks created, and what each onCreateMark
\* callback found: the marks stored and getFormat of every position.
FacadeState(threw, om, fl, ts, createdMarks, changes, callbacks) ==
  [threw |-> threw, orderedMarks |-> om, formatList |-> fl, timestamp |-> ts,
   createdMarks |-> createdMarks, changes |-> changes, callbacks |-> callbacks]

\* After this.formatting.addMark(mark) with outcome r: the callback
\* this.onCreateMark?.(mark) runs and the mark is pushed to createdMarks.
MarkAdded(st, mark, r) ==
  FacadeState(r.threw, r.orderedMarks, r.formatList,
              addMarkTimestamp(newMarkTimestamp(st.timestamp), mark),
              IF r.threw THEN st.createdMarks ELSE Append(st.createdMarks, mark),
              r.changes,
              IF r.threw THEN st.callbacks
              ELSE Append(st.callbacks,
                          [mark |-> mark, orderedMarks |-> r.orderedMarks,
                           formats |-> AllFormats(r.formatList)]))

\* newMark(start, end, key, value) and addMark of the mark, for the span
\* spanFromSlice returned.
CreateAndAdd(st, span, key, value) ==
  IF span.threw
    THEN FacadeState(TRUE, st.orderedMarks, st.formatList, st.timestamp,
                     st.createdMarks, <<>>, st.callbacks)
    ELSE MarkAdded(st, newMark(st.timestamp, span.start, span.end, key, value),
                   addMark(st.orderedMarks, st.formatList,
                           newMark(st.timestamp, span.start, span.end, key, value)))

RECURSIVE InsertLoop(_, _, _, _, _, _)
\* The rest of the loop of insertWithFormat after one mark.
InsertStep(st, l, index, endIndex, rules, rest) ==
  IF st.threw THEN st ELSE InsertLoop(st, l, index, endIndex, rules, rest)

\* for (const [key, value] of needsFormat) { ... }
InsertLoop(st, l, index, endIndex, rules, needsFormat) ==
  IF needsFormat = <<>> THEN st
  ELSE InsertStep(
         CreateAndAdd(st,
                      spanFromSlice(l, index, endIndex,
                                    ExpandOf(rules, Head(needsFormat)[1], Head(needsFormat)[2])),
                      Head(needsFormat)[1], Head(needsFormat)[2]),
         l, index, endIndex, rules, Tail(needsFormat))

\* RichList.insertWithFormat(index, format, ...values) once list.insertAt has
\* put the values at the positions startPos, startPos + 1, ...: l is the
\* list with them.
insertWithFormat(om, fl, ts, l, rules, index, count, startPos, fmt, currentOrder) ==
  InsertLoop(FacadeState(FALSE, om, fl, ts, <<>>, <<>>, <<>>),
             l, index, index + count, rules,
             diffFormats(getFormat(fl, startPos).rec, fmt, currentOrder))

\* RichList.format(startIndex, endIndex, key, value, expand): the expand
\* worked out in lines 268-271 is not handed to spanFromSlice, whose default
\* is "after".
format(om, fl, ts, l, rules, startIndex, endIndex, key, value, expand) ==
  CreateAndAdd(FacadeState(FALSE, om, fl, ts, <<>>, <<>>, <<>>),
               spanFromSlice(l, startIndex, endIndex, "after"), key, value)

\* Formatting.formattedSlices(list) of the later version, which RichList
\* calls: the spans projected on the list, empty slices dropped and equal
\* neighbours merged.
RECURSIVE SlicesOfSpans(_, _, _)
SlicesOfSpans(spans, l, slices) ==
  IF spans = <<>> THEN slices
  ELSE LET span == Head(spans)
           startIndex == IF slices = <<>> THEN 0 ELSE slices[Len(slices)].endIndex
           endIndex == indexOfAnchor(l, span.end)
       IN IF endIndex = startIndex THEN SlicesOfSpans(Tail(spans), l, slices)
          ELSE IF slices # <<>> /\ recordEquals(span.format, slices[Len(slices)].format)
            THEN SlicesOfSpans(Tail(spans), l,
                               [slices EXCEPT ![Len(slices)].endIndex = endIndex])
          ELSE SlicesOfSpans(Tail(spans), l,
                             Append(slices, [startIndex |-> startIndex,
                                             endIndex |-> endIndex,
                                             format |-> span.format]))

formattedSlices(fl, l) ==
  IF formattedSpans(fl).threw THEN [threw |-> TRUE, slices |-> <<>>]
  ELSE [threw |-> FALSE, slices |-> SlicesOfSpans(formattedSpans(fl).spans, l, <<>>)]

\* The formats handed to insertWithFormat, and the numbers of values.
MaxFacadeMarks == 2
\* The (key, value) pairs handed to format.
FormatKeyValues == {<<"bold", "v1">>, <<"url", "v1">>}
\* The expand arguments handed to format; "undefined" is the omitted argument.
FormatExpands == {"undefined", "after", "none"}
FormatInputs ==
  {<<>>, <<<<"bold", "v1">>>>, <<<<"url", "v1">>>>,
   <<<<"bold", "v1">>, <<"url", "v1">>>>, <<<<"bold", NULL>>>>}
MaxValues == 2

\* A new RichList, with or without expandRules.
InitRichList ==
  /\ orderedMarks = <<>>
  /\ formatList = InitFormatList
  /\ lastOp = "new"
  /\ lastMark = NoMark
  /\ lastThrew = FALSE
  /\ lastChanges = <<>>
  /\ inserted = 0
  /\ timestamp = 0
  /\ returned = {}
  /\ observed = {}
  /\ thisList = {}
  /\ created = {}
  /\ expandRules \in ExpandRulesOptions
  /\ facadeCall = NoFacadeCall
  /\ helperCall = NoHelperCall

\* The positions list.insertAt(index, ...values) can create for count
\* values: consecutive new positions between the neighbours of the gap.
NewPositions(l, index, count) ==
  {startPos \in RealPositions :
     /\ \A i \in 0..(count - 1) : startPos + i \in RealPositions \ created
     /\ index > 0 => listPositionAt(l, index - 1) < startPos
     /\ index < Length(l) => startPos + count - 1 < listPositionAt(l, index)}

\* What a call on the RichList leaves in its TimestampFormatting.
FacadeDone(op, st) ==
  /\ orderedMarks' = st.orderedMarks
  /\ formatList' = st.formatList
  /\ timestamp' = st.timestamp
  /\ lastOp' = op
  /\ lastMark' = IF st.createdMarks = <<>> THEN NoMark
                 ELSE st.createdMarks[Len(st.createdMarks)]
  /\ lastThrew' = st.threw
  /\ lastChanges' = st.changes
  /\ inserted' = inserted - Len(orderedMarks) + Len(st.orderedMarks)
  /\ returned' = returned \cup {MarkID(st.createdMarks[i]) : i \in 1..Len(st.createdMarks)}
  /\ observed' = observed \cup {MarkID(st.createdMarks[i]) : i \in 1..Len(st.createdMarks)}
  /\ UNCHANGED <<expandRules, helperCall>>

InsertDone(index, count, fmt, st) ==
  /\ FacadeDone("insertWithFormat", st)
  /\ facadeCall' = [op |-> "insertWithFormat", index |-> index,
                    endIndex |-> index + count, format |-> fmt,
                    expand |-> "undefined", threw |-> st.threw,
                    createdMarks |-> st.createdMarks, changes |-> <<>>,
                    callbacks |-> st.callbacks]

InsertWithFormat ==
  \E index \in 0..Length(thisList), count \in 1..MaxValues,
     fmt \in FormatInputs :
    \E startPos \in NewPositions(thisList, index, count) :
     \E currentOrder \in KeyOrders(getFormat(formatList, startPos).rec) :
      /\ timestamp < MaxFacadeMarks
      /\ thisList' = thisList \cup {startPos + i : i \in 0..(count - 1)}
      /\ created' = created \cup {startPos + i : i \in 0..(count - 1)}
      /\ InsertDone(index, count, fmt,
                    insertWithFormat(orderedMarks, formatList, timestamp, thisList',
                                     expandRules, index, count, startPos, fmt,
                                     currentOrder))

FormatDone(startIndex, endIndex, key, value, expand, st) ==
  /\ FacadeDone("format", st)
  /\ facadeCall' = [op |-> "format", index |-> startIndex, endIndex |-> endIndex,
                    format |-> <<<<key, value>>>>, expand |-> expand,
                    threw |-> st.threw, createdMarks |-> st.createdMarks,
                    changes |-> st.changes, callbacks |-> st.callbacks]
  /\ UNCHANGED <<thisList, created>>

\* format is called with the slices startIndex < endIndex of the list and
\* with the empty slices.
Format ==
  \E startIndex \in 0..Length(thisList), endIndex \in 0..Length(thisList),
     kv \in FormatKeyValues, expand \in FormatExpands :
    /\ startIndex <= endIndex
    /\ timestamp < MaxFacadeMarks
    /\ FormatDone(startIndex, endIndex, kv[1], kv[2], expand,
                  format(orderedMarks, formatList, timestamp, thisList, expandRules,
                         startIndex, endIndex, kv[1], kv[2], expand))

\* this.list.delete(pos): the position stays in the Order.
ListDelete ==
  \E pos \in thisList :
    /\ thisList' = thisList \ {pos}
    /\ facadeCall' = [NoFacadeCall EXCEPT !.op = "delete"]
    /\ UNCHANGED <<orderedMarks, formatList, lastOp, lastMark, lastThrew, lastChanges,
                   inserted, timestamp, returned, observed,
                   created, expandRules, helperCall>>

NextRichList == InsertWithFormat \/ Format \/ ListDelete
SpecRichList == InitRichList /\ [][NextRichList]_vars

\* A step in which a call of RichList.format returned.
FormatReturned == facadeCall'.op = "format" /\ ~facadeCall'.threw /\ timestamp' # timestamp

\* C21: format(startIndex, endIndex, key, value, expand) creates exactly one
\* mark and adds it to the formatting; the mark's start and end are those of
\* spanFromSlice(list, startIndex, endIndex, expand), where an omitted expand
\* is expandRules(key, value), or "after" without expandRules; the call
\* returns that mark and the changes of addMark.
C21_FormatCreatesOneMark ==
  [][FormatReturned =>
       LET c == facadeCall'
           key == c.format[1][1]
           value == c.format[1][2]
           expand == IF c.expand = "undefined" THEN ExpandOf(expandRules, key, value)
                     ELSE c.expand
           span == spanFromSlice(thisList, c.index, c.endIndex, expand)
       IN /\ Len(c.createdMarks) = 1
          /\ c.createdMarks[1].key = key
          /\ c.createdMarks[1].value = value
          /\ ~span.threw
          /\ c.createdMarks[1].start = span.start
          /\ c.createdMarks[1].end = span.end
          /\ c.createdMarks[1] \notin Stored(orderedMarks)
          /\ Stored(orderedMarks') = Stored(orderedMarks) \cup {c.createdMarks[1]}
          /\ Len(orderedMarks') = Len(orderedMarks) + 1
          /\ c.changes = addMark(orderedMarks, formatList, c.createdMarks[1]).changes]_vars

\* The format `entries` with its null entries removed.
WithoutNulls(entries) ==
  [k \in {x \in DOMAIN FormatRecord(entries) : FormatRecord(entries)[x] # NULL}
     |-> FormatRecord(entries)[k]]

\* A call of insertWithFormat has returned.
InsertReturned == facadeCall.op = "insertWithFormat" /\ ~facadeCall.threw

\* C22: after insertWithFormat(index, F, ...values), from any prior list and
\* formatting, getFormatAt of every inserted item is F with its null entries
\* removed.
C22_InsertedItemsHaveFormat ==
  InsertReturned =>
    \A i \in facadeCall.index..(facadeCall.endIndex - 1) :
      /\ ~getFormatAt(formatList, thisList, i).threw
      /\ recordEquals(getFormatAt(formatList, thisList, i).rec,
                      WithoutNulls(facadeCall.format))

\* The value a format gives a key, null when the key is absent.
FormatValue(rec, k) == IF k \in DOMAIN rec THEN rec[k] ELSE NULL

\* The keys on which the format `desired` differs from the format `current`,
\* each with its desired value.
FormatDifference(current, desired) ==
  {<<k, FormatValue(desired, k)>> : k \in {x \in Keys :
       FormatValue(desired, x) # FormatValue(current, x)}}

\* A step in which a call of insertWithFormat returned.
InsertStepReturned ==
  facadeCall'.op = "insertWithFormat" /\ ~facadeCall'.threw /\ thisList' # thisList

\* The first of the positions an insertWithFormat step created.
StartPos == CHOOSE p \in thisList' \ thisList : \A q \in thisList' \ thisList : p <= q

\* C23: insertWithFormat creates exactly one mark for each key of
\* diffFormats(format inherited at the first inserted position, desired
\* format), and none when the inherited format already matches; each mark has
\* the span spanFromSlice(list, index, index + values.length,
\* expandRules(key, value)), with "after" when there are no expandRules.
C23_InsertCreatesDiffMarks ==
  [][InsertStepReturned =>
       LET c == facadeCall'
           need == FormatDifference(getFormat(formatList, StartPos).rec,
                                    WithoutNulls(c.format))
           marks == {c.createdMarks[i] : i \in 1..Len(c.createdMarks)}
       IN /\ Len(c.createdMarks) = Cardinality(need)
          /\ {<<m.key, m.value>> : m \in marks} = need
          /\ \A m \in marks :
               LET span == spanFromSlice(thisList', c.index, c.endIndex,
                                         ExpandOf(expandRules, m.key, m.value))
               IN ~span.threw /\ m.start = span.start /\ m.end = span.end
          /\ marks \cap Stored(orderedMarks) = {}
          /\ Stored(orderedMarks') = Stored(orderedMarks) \cup marks
          /\ Len(orderedMarks') = Len(orderedMarks) + Cardinality(need)]_vars

\* insertWithFormat returned with a desired format of two keys of which the
\* inserted position inherited one: the one mark created is for the other
\* key, url, whose expand is "none".
C23_Witness ==
  /\ InsertReturned
  /\ expandRules = "links"
  /\ Cardinality(DOMAIN WithoutNulls(facadeCall.format)) = 2
  /\ Len(facadeCall.createdMarks) = 1
  /\ facadeCall.createdMarks[1].key = "url"

\* C28: the callback for created marks is invoked from format and
\* insertWithFormat only after the formatting is fully updated: at each
\* callback every mark the operation creates is already in marks(), and
\* getFormat already returns the formats the operation ends with.
C28_CallbackAfterUpdate ==
  (facadeCall.op \in {"format", "insertWithFormat"} /\ ~facadeCall.threw) =>
    \A i \in 1..Len(facadeCall.callbacks) :
      /\ \A j \in 1..Len(facadeCall.createdMarks) :
           facadeCall.createdMarks[j] \in Stored(facadeCall.callbacks[i].orderedMarks)
      /\ facadeCall.callbacks[i].formats = AllFormats(formatList)

\* The slices are in list order and partition [0, length): none is empty,
\* each starts where the one before ended, and neighbours differ in format.
SlicesPartition(slices, length) ==
  /\ (slices = <<>>) <=> (length = 0)
  /\ slices # <<>> => slices[1].startIndex = 0 /\ slices[Len(slices)].endIndex = length
  /\ \A i \in 1..Len(slices) : slices[i].startIndex < slices[i].endIndex
  /\ \A i \in 1..(Len(slices) - 1) :
       /\ slices[i + 1].startIndex = slices[i].endIndex
       /\ ~recordEquals(slices[i].format, slices[i + 1].format)

\* The format of each slice is getFormat of every list position inside it.
SlicesMatchGetFormat(slices, fl, l) ==
  \A i \in 1..Len(slices) :
    \A index \in slices[i].startIndex..(slices[i].endIndex - 1) :
      /\ InRange(l, index)
      /\ ~getFormatAt(fl, l, index).threw
      /\ recordEquals(getFormatAt(fl, l, index).rec, slices[i].format)

\* C27: formattedSlices(list), and so formattedValues(), returns slices in
\* list order that partition [0, list.length): every slice is non-empty and
\* starts where the previous one ended, adjacent slices have different
\* formats, and the format of a slice is getFormat of every list position
\* inside it.
C27_FormattedSlicesPartition ==
  /\ ~formattedSlices(formatList, thisList).threw
  /\ SlicesPartition(formattedSlices(formatList, thisList).slices, Length(thisList))
  /\ SlicesMatchGetFormat(formattedSlices(formatList, thisList).slices,
                          formatList, thisList)

\* ------------------------------------------------------- index invariants

\* The populated sides of the index entries, as anchors.
PopulatedSides(fl) ==
  {a \in {MkAnchor(p, b) : p \in DOMAIN fl, b \in BOOLEAN} :
     IF a.before THEN fl[a.pos].hasBefore ELSE fl[a.pos].hasAfter}

\* C31: in every reachable state, also after deleteMark has removed the last
\* mark of a key at an anchor, no per-anchor stack is empty: a key whose stack
\* becomes empty is removed from the map of that side.
C31_NoEmptyStack ==
  \A a \in PopulatedSides(formatList) :
    \A k \in DOMAIN SideMap(formatList[a.pos], a.before) :
      Len(SideMap(formatList[a.pos], a.before)[k]) > 0

\* The stack held for key k at the populated side a; no stack is an empty one.
StackAt(fl, a, k) ==
  IF k \in DOMAIN SideMap(fl[a.pos], a.before)
    THEN SideMap(fl[a.pos], a.before)[k]
    ELSE <<>>

\* No element occurs twice in the array.
EachOnce(stack) ==
  \A i, j \in 1..Len(stack) : i # j => stack[i] # stack[j]

\* C32: in every reachable state, for every populated side (p, s) of every
\* index entry and every key k, the stack stored there for k holds exactly
\* the stored marks m with m.key = k and m.start <= (p, s) < m.end, each once
\* and no others; and the start and the end anchor of every stored mark have
\* a populated index side.
C32_StacksHoldCoveringMarks ==
  /\ \A a \in PopulatedSides(formatList) :
       \A k \in Keys :
         /\ EachOnce(StackAt(formatList, a, k))
         /\ Stored(StackAt(formatList, a, k)) = Covering(Stored(orderedMarks), k, a)
  /\ \A m \in Stored(orderedMarks) :
       /\ m.start \in PopulatedSides(formatList)
       /\ m.end \in PopulatedSides(formatList)

\* The anchor a is one whose stack an addMark or deleteMark of `mark` writes:
\* some stored or given mark compare-equal to `mark` has a in its span.
WritesStack(om, mark, a, k) ==
  \E m \in Stored(om) \cup {mark} :
    compareMarks(m, mark) = 0 /\ m.key = k /\ Covers(m, a)

\* C33: a side of an index entry that was filled by copying (from the before
\* side of the same entry, or from the previous entry) has stacks of its own:
\* an addMark or deleteMark that inserts into or removes from the stacks of
\* some sides leaves the stack of every other populated side as it was.
C33_CopiedStacksIndependent ==
  [][lastOp' \in {"addMark", "deleteMark"} =>
       \A a \in PopulatedSides(formatList) \cap PopulatedSides(formatList') :
         \A k \in Keys :
           ~WritesStack(orderedMarks, lastMark', a, k)
             => StackAt(formatList', a, k) = StackAt(formatList, a, k)]_vars

\* The stored mark that deleteMark(mark) finds: compare-equal to the argument.
CanonMark(om, mark) == CHOOSE m \in Stored(om) : compareMarks(m, mark) = 0

\* C34: deleteMark(m) identifies the stored mark by compareMarks equality
\* alone, also when m is another object whose other fields differ: it removes
\* that stored mark from orderedMarks and from every stack that holds it, and
\* its change records are made from the start, end, key and value of the
\* stored mark.
C34_DeleteRemovesCanonicalMark ==
  [][(lastOp' = "deleteMark" /\ HasEqual(orderedMarks, lastMark')) =>
       /\ ~lastThrew'
       /\ Stored(orderedMarks') = Stored(orderedMarks) \ {CanonMark(orderedMarks, lastMark')}
       /\ \A a \in PopulatedSides(formatList') :
            \A k \in Keys :
              CanonMark(orderedMarks, lastMark') \notin Stored(StackAt(formatList', a, k))
       /\ \A i \in 1..Len(lastChanges') :
            /\ lastChanges'[i].key = CanonMark(orderedMarks, lastMark').key
            /\ lastChanges'[i].previousValue = Prim(CanonMark(orderedMarks, lastMark').value)
            /\ AnchorsCompare(CanonMark(orderedMarks, lastMark').start,
                              lastChanges'[i].start) <= 0
            /\ AnchorsCompare(lastChanges'[i].end,
                              CanonMark(orderedMarks, lastMark').end) <= 0]_vars

\* C35: addMark(m) returns no change record over a region where the value
\* for m.key is the same before and after the call, that is where m loses to
\* a greater mark or where the value of the winner it displaces equals
\* m.value; the list returned is empty when that holds over the whole span.
C35_NoChangeWhereValueKept ==
  [][(lastOp' = "addMark" /\ ~lastThrew')
       => \A i \in 1..Len(lastChanges') :
            \A a \in AnchorsIn(lastChanges'[i]) :
              WinnerValue(Stored(orderedMarks) \cup {lastMark'}, lastMark'.key, a)
                # WinnerValue(Stored(orderedMarks), lastMark'.key, a)]_vars

\* C36: a mark from (p, before) to (p, after) of one position is accepted by
\* addMark and changes the format of p only: getFormat(q) is as before for
\* every other position q, in a list or not.  The mark is one that no stored
\* mark is compare-equal to.
C36_EmbedChangesOnePosition ==
  [][(lastOp' = "addMark" /\ IsEmbed(lastMark') /\ lastMark'.start.pos \in RealPositions
      /\ ~HasEqual(orderedMarks, lastMark'))
       => /\ ~lastThrew'
          /\ \A q \in RealPositions \ {lastMark'.start.pos} :
               getFormat(formatList', q) = getFormat(formatList, q)]_vars

\* -------------------------------------------------------------- locateMark

\* The marks of the lists handed to locateMark have timestamps up to this.
MaxLocateTs == 6

\* The marks locateMark is tried on: one per (creatorID, timestamp), enough
\* of them for lists of more than ten marks.
LocateMarks ==
  {MkMark(MIN_ANCHOR, MAX_ANCHOR, "bold", NULL, c, t) :
     c \in {"alice", "bob"}, t \in 1..MaxLocateTs}

\* The record of a locateMark call: index is the number returned, TypeError
\* when the call threw.
LocateCall(op, list, mark, index) ==
  [op |-> op, list |-> list, mark |-> mark, index |-> index]

\* Any list of marks in strictly ascending order, and no call made yet.
InitLocate ==
  /\ orderedMarks = <<>>
  /\ formatList = InitFormatList
  /\ lastOp = "new"
  /\ lastMark = NoMark
  /\ lastThrew = FALSE
  /\ lastChanges = <<>>
  /\ inserted = 0
  /\ timestamp = 0
  /\ returned = {}
  /\ observed = {}
  /\ thisList = {}
  /\ created = {}
  /\ expandRules = "undefined"
  /\ facadeCall = NoFacadeCall
  /\ helperCall \in {LocateCall("none", Ascending(S), NoMark, 0) : S \in SUBSET LocateMarks}

LocateMark ==
  \E mark \in LocateMarks :
    HelperDone(LocateCall("locateMark", helperCall.list, mark,
                          locateMark(helperCall.list, mark)))

NextLocate == LocateMark
SpecLocate == InitLocate /\ [][NextLocate]_vars

\* The number of elements of the list that are strictly less than the mark.
Rank(list, mark) ==
  Cardinality({i \in 1..Len(list) : compareMarks(list[i], mark) < 0})

\* C37: for every list in strictly ascending compareMarks order, of any
\* length (1, exactly 10 and more than 10 included), and every mark m,
\* locateMark returns the number of elements strictly less than m: the index
\* of the compare-equal element if there is one and the insertion index
\* otherwise, on the tail test, the reverse scan of the last ten and the
\* binary search of the prefix alike.
C37_LocateMarkReturnsRank ==
  helperCall.op = "locateMark"
    => /\ helperCall.index # TypeError
       /\ helperCall.index = Rank(helperCall.list, helperCall.mark)

\* ------------------------------------------- TimestampFormatting, failures

\* Marks of another instance whose range addMark rejects.
TimestampInvalidInputs ==
  {m \in MarkInputs : ~ValidRange(m) /\ m.key = "bold" /\ m.value = "v1"}

\* TimestampFormatting.addMark of a mark with start >= end.
TimestampAddInvalid ==
  \E mark \in TimestampInvalidInputs :
    /\ inserted < MaxMarks
    /\ TimestampAddStep(mark, addMark(orderedMarks, formatList, mark))

NextTimestampInvalid == NewMark \/ TimestampAddMark \/ TimestampAddInvalid \/ Clear
SpecTimestampInvalid == Init /\ [][NextTimestampInvalid]_vars

\* C38: a TimestampFormatting.addMark call that fails, as with start >= end,
\* leaves the instance untouched, its Lamport counter included: the next
\* newMark returns the timestamp it would have returned without the call.
C38_FailedAddKeepsCounter ==
  [][(lastOp' = "addMark" /\ lastThrew')
       => /\ newMarkTimestamp(timestamp') = newMarkTimestamp(timestamp)
          /\ orderedMarks' = orderedMarks
          /\ formatList' = formatList]_vars

\* The largest timestamp among the marks newMark returned and the marks
\* passed to addMark or load; 0 when there is none.
LargestSeen(ids) ==
  IF ids = {} THEN 0
  ELSE CHOOSE t \in {id.timestamp : id \in ids} : \A id \in ids : id.timestamp <= t

\* C39: addMark and load advance the local counter to one past the largest
\* timestamp seen: when the largest created, added or loaded timestamp is T,
\* the next newMark carries timestamp T + 1, and it carries 1 on a fresh
\* instance or after loading an empty state into a fresh instance.
C39_NewMarkOnePastLargest ==
  [][lastOp' = "newMark"
       => lastMark'.timestamp = LargestSeen(returned \cup observed) + 1]_vars

\* The first newMark after marks of another instance were added or loaded:
\* its timestamp is one past the largest of theirs.
C39_Witness ==
  /\ lastOp = "newMark"
  /\ returned = {MarkID(lastMark)}
  /\ observed # {}
  /\ LargestSeen(observed) = MaxTs
  /\ lastMark.timestamp = MaxTs + 1

\* ---------------------------------------------------------------- diffFormats

\* The formats handed to diffFormats: each key absent or set to a value, null
\* included, the keys in either order.
DiffValues == {"v1", "v2", NULL}
DiffFormatInputs ==
  {<<>>}
    \cup {<<<<k, v>>>> : k \in Keys, v \in DiffValues}
    \cup {<<<<ks[1], v1>>, <<ks[2], v2>>>> :
            ks \in {<<"bold", "url">>, <<"url", "bold">>},
            v1 \in DiffValues, v2 \in DiffValues}

\* Object.keys of a format.
KeysOf(entries) == [i \in 1..Len(entries) |-> entries[i][1]]

\* The record of a diffFormats call: needsFormat is the Map returned.
DiffCall(op, current, target, needsFormat) ==
  [op |-> op, current |-> current, target |-> target, needsFormat |-> needsFormat]

\* Any two formats, and no call made yet.
InitDiff ==
  /\ orderedMarks = <<>>
  /\ formatList = InitFormatList
  /\ lastOp = "new"
  /\ lastMark = NoMark
  /\ lastThrew = FALSE
  /\ lastChanges = <<>>
  /\ inserted = 0
  /\ timestamp = 0
  /\ returned = {}
  /\ observed = {}
  /\ thisList = <<>>
  /\ created = 0
  /\ expandRules = "undefined"
  /\ facadeCall = NoFacadeCall
  /\ helperCall \in {DiffCall("none", current, target, <<>>) :
                       current \in DiffFormatInputs, target \in DiffFormatInputs}

DiffFormats ==
  /\ helperCall.op = "none"
  /\ HelperDone(DiffCall("diffFormats", helperCall.current, helperCall.target,
                         diffFormats(FormatRecord(helperCall.current),
                                     helperCall.target,
                                     KeysOf(helperCall.current))))

NextDiff == DiffFormats
SpecDiff == InitDiff /\ [][NextDiff]_vars

\* current with each entry of the map set, and the keys the map gives null
\* removed.
Overlay(current, needsFormat) ==
  [k \in {x \in DOMAIN FormatRecord(current) \cup DOMAIN FormatRecord(needsFormat) :
            ~(x \in DOMAIN FormatRecord(needsFormat)
                /\ FormatRecord(needsFormat)[x] = NULL)}
     |-> IF k \in DOMAIN FormatRecord(needsFormat)
           THEN FormatRecord(needsFormat)[k]
           ELSE FormatRecord(current)[k]]

\* A function from keys to values without the keys it gives null.
DropNulls(f) == [k \in {x \in DOMAIN f : f[x] # NULL} |-> f[k]]

\* An entry of the map whose value, not null, current and target both have.
SameInBoth(e, current, target) ==
  /\ e[2] # NULL
  /\ e[1] \in DOMAIN FormatRecord(current)
  /\ e[1] \in DOMAIN FormatRecord(target)
  /\ FormatRecord(current)[e[1]] = e[2]
  /\ FormatRecord(target)[e[1]] = e[2]

\* C40: for all formats current and target, overlaying
\* diffFormats(current, target) on current (each returned key set to its
\* value, the keys mapped to null removed) yields target with null entries
\* ignored, and the map returned has no key whose value, not null, is the
\* same in current and in target.
C40_DiffOverlayGivesTarget ==
  helperCall.op = "diffFormats"
    => /\ DropNulls(Overlay(helperCall.current, helperCall.needsFormat))
            = WithoutNulls(helperCall.target)
       /\ \A i \in 1..Len(helperCall.needsFormat) :
            ~SameInBoth(helperCall.needsFormat[i], helperCall.current, helperCall.target)
       /\ \A i, j \in 1..Len(helperCall.needsFormat) :
            helperCall.needsFormat[i][1] = helperCall.needsFormat[j][1] => i = j

\* A call that changes one key, removes another and leaves out a third kind
\* of entry: a null of target.
C40_Witness ==
  /\ helperCall.op = "diffFormats"
  /\ helperCall.current = <<<<"bold", "v1">>, <<"url", "v1">>>>
  /\ helperCall.target = <<<<"bold", "v2">>, <<"url", NULL>>>>
  /\ helperCall.needsFormat = <<<<"bold", "v2">>, <<"url", NULL>>>>

====
